---- MODULE Spec2Model ----
(***************************************************************************)
(* A model of the CHIP-8 interpreter of adtennant/chip8.                   *)
(*                                                                         *)
(*   chip8/chip8.go            the CPU core (Chip8), its Display and the   *)
(*                             Instruction field accessors                 *)
(*   chip8/opcodes/opcodes.go  the standalone opcode decoder               *)
(*   chip8/display (package)   the Display whose operations return the     *)
(*                             Drawer's error                              *)
(*                                                                         *)
(* Representation.  A [4096]uint8 memory is the function from the          *)
(* addresses of its non-zero bytes to those bytes (MemAt reads it,         *)
(* MemWrite keeps the form normal, so two equal memories are equal         *)
(* values).  A [32][64]bool pixel grid is the set of <<row, col>> pairs    *)
(* that are true.  uint8 and uint16 arithmetic is written out modulo 2^8   *)
(* and 2^16.  A Go run-time panic (index or slice bounds out of range)     *)
(* ends the run in status "panic" with the writes made up to that point.   *)
(***************************************************************************)
EXTENDS Integers, Sequences, FiniteSets, TLC

VARIABLES
    v,            \* Chip8.v       [16]uint8
    i,            \* Chip8.i       uint16
    pc,           \* Chip8.pc      uint16
    stack,        \* Chip8.stack   [16]uint16
    sp,           \* Chip8.sp      uint16
    memory,       \* Chip8.memory  [4096]uint8 (non-zero bytes)
    pixels,       \* Display.pixels (set of lit <<row, col>>)
    delayTimer,   \* Chip8.delayTimer uint8
    soundTimer,   \* Chip8.soundTimer uint8
    status,       \* "new" | "running" | "error" | "panic": where Run stands
    ret,          \* what the last LoadROM / Cycle call returned
    loaded,       \* the payload handed to the last LoadROM call
    cycles,       \* number of Cycle() calls made
    beeps,        \* number of Beeper.Beep() calls made
    last,         \* what the last call did (observed effects of one call)
    prev,         \* what the call before it did
    current,      \* keys.current  [16]bool (set of indices that are true)
    previous,     \* keys.previous [16]bool (set of indices that are true)
    decoded,      \* the last call of the standalone decoder and its results
    dispatched,   \* a word run through Chip8's own dispatch and what came of it
    beeper,       \* the shell's beeper: audio playing, the goroutines' timers
    sinceBeep     \* clock ticks since the most recent Beep() (saturating)

vars == <<v, i, pc, stack, sp, memory, pixels, delayTimer, soundTimer,
          status, ret, loaded, cycles, beeps, last, prev,
          current, previous, decoded, dispatched, beeper, sinceBeep>>

-----------------------------------------------------------------------------
(* Sizes fixed by the program.                                             *)

DISPLAY_WIDTH == 64
DISPLAY_HEIGHT == 32
MemSize == 4096
StackSize == 16
NumRegs == 16
RomBase == 512

(* Bounds of the exploration: calls of Cycle in a run, key events pending  *)
(* at the start of one frame, clock ticks the beeper's fixed duration      *)
(* (time.Second / 5) is divided into, and goroutines the beeper starts.    *)

MaxCycles == 527
MaxEvents == 2
BeepTicks == 4
MaxBeeps == 3

Byte == 0..255
Reg == 0..(NumRegs - 1)

-----------------------------------------------------------------------------
(* Fixed-width arithmetic.                                                 *)

RECURSIVE Pow2(_)
Pow2(k) == IF k = 0 THEN 1 ELSE 2 * Pow2(k - 1)

U8(n) == n % 256
U16(n) == n % 65536

Bit(b, k) == (b \div Pow2(k)) % 2

OrBit(p, q) == IF p + q > 0 THEN 1 ELSE 0
AndBit(p, q) == p * q
XorBit(p, q) == (p + q) % 2

(* a | b, a & b, a ^ b on uint8, bit k upwards.                            *)
RECURSIVE BitOrFrom(_, _, _)
BitOrFrom(a, b, k) ==
    IF k > 7 THEN 0
    ELSE OrBit(Bit(a, k), Bit(b, k)) * Pow2(k) + BitOrFrom(a, b, k + 1)

RECURSIVE BitAndFrom(_, _, _)
BitAndFrom(a, b, k) ==
    IF k > 7 THEN 0
    ELSE AndBit(Bit(a, k), Bit(b, k)) * Pow2(k) + BitAndFrom(a, b, k + 1)

RECURSIVE BitXorFrom(_, _, _)
BitXorFrom(a, b, k) ==
    IF k > 7 THEN 0
    ELSE XorBit(Bit(a, k), Bit(b, k)) * Pow2(k) + BitXorFrom(a, b, k + 1)

BitOr(a, b) == BitOrFrom(a, b, 0)
BitAnd(a, b) == BitAndFrom(a, b, 0)
BitXor(a, b) == BitXorFrom(a, b, 0)

-----------------------------------------------------------------------------
(* The built-in font.                                                      *)

fontSet ==
    << 240, 144, 144, 144, 240,
       32, 96, 32, 32, 112,
       240, 16, 240, 128, 240,
       240, 16, 240, 16, 240,
       144, 144, 240, 16, 16,
       240, 128, 240, 16, 240,
       240, 128, 240, 144, 240,
       240, 16, 32, 64, 64,
       240, 144, 240, 144, 240,
       240, 144, 240, 16, 240,
       240, 144, 240, 144, 144,
       224, 144, 224, 144, 224,
       240, 128, 128, 128, 240,
       224, 144, 144, 144, 224,
       240, 128, 240, 128, 240,
       240, 128, 240, 128, 128 >>

-----------------------------------------------------------------------------
(* Memory as the function of its non-zero bytes.                           *)

MemAt(m, a) == IF a \in DOMAIN m THEN m[a] ELSE 0

MemWrite(m, a, b) ==
    IF b = 0
    THEN [k \in DOMAIN m \ {a} |-> m[k]]
    ELSE [k \in DOMAIN m \cup {a} |-> IF k = a THEN b ELSE m[k]]

(* A copy that stops one byte short.                                       *)
CopyIntoShort(m, at, src) ==
    LET cnt == (IF Len(src) < MemSize - at THEN Len(src) ELSE MemSize - at) - 1
        dom == { a \in (DOMAIN m) \cup (at..(at + cnt - 1)) :
                    IF a >= at /\ a < at + cnt
                    THEN src[a - at + 1] # 0
                    ELSE TRUE }
    IN  [a \in dom |-> IF a >= at /\ a < at + cnt THEN src[a - at + 1] ELSE m[a]]

(* copy(dst[at:], src): copies min(len(dst) - at, len(src)) bytes.         *)
CopyInto(m, at, src) ==
    LET n == IF Len(src) < MemSize - at THEN Len(src) ELSE MemSize - at
        dom == { a \in (DOMAIN m) \cup (at..(at + n - 1)) :
                    IF a >= at /\ a < at + n
                    THEN src[a - at + 1] # 0
                    ELSE TRUE }
    IN  [a \in dom |-> IF a >= at /\ a < at + n THEN src[a - at + 1] ELSE m[a]]

ZeroMemory == [a \in {} |-> 0]

-----------------------------------------------------------------------------
(* chip8.go: the fields of an instruction word.                            *)

opcode(w) == (w \div 4096) * 4096
x(w) == (w \div 256) % 16
y(w) == (w \div 16) % 16
(* A low-nibble accessor that returns the nibble above it.                 *)
nFromY(w) == (w \div 16) % 16

n(w) == w % 16
nn(w) == w % 256
nnn(w) == w % 4096

(* opcodes.go: the standalone decoder and its accessors.                   *)

X(o) == (o \div 256) % 16
Y(o) == (o \div 16) % 16
(* A low-nibble accessor that keeps the whole low byte.                    *)
NAsByte(o) == o % 256

N(o) == o % 16
NN(o) == o % 256
NNN(o) == o % 4096

Instruction(o) ==
    LET fam == o \div 4096 IN
    CASE fam = 0 ->
            (CASE NN(o) = 224 -> "00E0"
               [] NN(o) = 238 -> "00EE"
               [] OTHER -> "Unknown")
      [] fam = 1 -> "1NNN"
      [] fam = 2 -> "2NNN"
      [] fam = 3 -> "3XNN"
      [] fam = 4 -> "4XNN"
      [] fam = 5 -> IF N(o) = 0 THEN "5XY0" ELSE "Unknown"
      [] fam = 6 -> "6XNN"
      [] fam = 7 -> "7XNN"
      [] fam = 8 ->
            (CASE N(o) = 0 -> "8XY0"
               [] N(o) = 1 -> "8XY1"
               [] N(o) = 2 -> "8XY2"
               [] N(o) = 3 -> "8XY3"
               [] N(o) = 4 -> "8XY4"
               [] N(o) = 5 -> "8XY5"
               [] N(o) = 6 -> "8XY6"
               [] N(o) = 7 -> "8XY7"
               [] N(o) = 14 -> "8XYE"
               [] OTHER -> "Unknown")
      [] fam = 9 -> IF N(o) = 0 THEN "9XY0" ELSE "Unknown"
      [] fam = 10 -> "ANNN"
      [] fam = 11 -> "BNNN"
      [] fam = 12 -> "CXNN"
      [] fam = 13 -> "DXYN"
      [] fam = 14 ->
            (CASE NN(o) = 158 -> "EX9E"
               [] NN(o) = 161 -> "EXA1"
               [] OTHER -> "Unknown")
      [] fam = 15 ->
            (CASE NN(o) = 7 -> "FX07"
               [] NN(o) = 21 -> "FX15"
               [] NN(o) = 24 -> "FX18"
               [] NN(o) = 30 -> "FX1E"
               [] NN(o) = 10 -> "FX0A"
               [] NN(o) = 41 -> "FX29"
               [] NN(o) = 51 -> "FX33"
               [] NN(o) = 85 -> "FX55"
               [] NN(o) = 101 -> "FX65"
               [] OTHER -> "Unknown")

-----------------------------------------------------------------------------
(* Results of calls.  An error value is compared by identity in Go; here   *)
(* it is the record of what the error was built from.                      *)

Nil == [kind |-> "nil"]

unknownInstructionError(pcv, w) == [kind |-> "unknown opcode", pc |-> pcv, word |-> w]

DrawFailed == [kind |-> "draw failed"]
ReadFailed == [kind |-> "read failed"]

-----------------------------------------------------------------------------
(* The Display of chip8.go.  c is the machine in the middle of a call:     *)
(* the Chip8 fields, the grids handed to Drawer.Draw so far (draws) and    *)
(* whether the call has panicked.  Draw's result is in.drawRet.            *)

Clear(c, in) ==
    [c EXCEPT !.pixels = {},
              !.draws = Append(@, {}),
              !.drawRets = Append(@, in.drawRet)]

(* Cells whose column wraps around the right edge.                         *)
SpriteHitsWrap(px, py, sprite) ==
    { <<py + row, (px + col) % DISPLAY_WIDTH>> : <<row, col>> \in
        { rc \in (0..(Len(sprite) - 1)) \X (0..7) :
            /\ py + rc[1] < DISPLAY_HEIGHT
            /\ Bit(sprite[rc[1] + 1], 7 - rc[2]) = 1 } }

SpriteHits(px, py, sprite) ==
    { <<py + row, px + col>> : <<row, col>> \in
        { rc \in (0..(Len(sprite) - 1)) \X (0..7) :
            /\ py + rc[1] < DISPLAY_HEIGHT
            /\ px + rc[2] < DISPLAY_WIDTH
            /\ Bit(sprite[rc[1] + 1], 7 - rc[2]) = 1 } }

(* A blit that sets pixels and never clears one.                           *)
SpritePixelsOr(pixels0, px, py, sprite) ==
    pixels0 \cup SpriteHits(px, py, sprite)

SpritePixels(pixels0, px, py, sprite) ==
    LET hits == SpriteHits(px, py, sprite)
    IN  (pixels0 \ hits) \cup (hits \ pixels0)

SpriteCollision(pixels0, px, py, sprite) ==
    IF SpriteHits(px, py, sprite) \cap pixels0 # {} THEN 1 ELSE 0

(* Display.DrawSprite of chip8.go: Draw's result is dropped, the flag is   *)
(* the only result (DrawSpriteFlag).                                       *)
DrawSprite(c, px, py, sprite, in) ==
    LET grid == SpritePixels(c.pixels, px, py, sprite)
    IN  [c EXCEPT !.pixels = grid,
                  !.draws = Append(@, grid),
                  !.drawRets = Append(@, in.drawRet)]

DrawSpriteFlag(c, px, py, sprite) == SpriteCollision(c.pixels, px, py, sprite)

(* The Display of package display: every operation returns Draw's result.  *)
DisplayClear(grid, drawRet) == [pixels |-> {}, err |-> drawRet]

DisplayDrawSprite(grid, px, py, sprite, drawRet) ==
    [pixels |-> SpritePixels(grid, px, py, sprite),
     vf |-> SpriteCollision(grid, px, py, sprite),
     err |-> drawRet]

-----------------------------------------------------------------------------
(* Chip8.execute, one operator per case of the switch.  Each takes the     *)
(* machine c after the fetch (c.pc is already advanced) and the word w.    *)

Panic(c) == [c EXCEPT !.panic = TRUE]

Op00EE(c) ==
    LET nsp == U16(c.sp + 65535)
    IN  IF nsp >= StackSize
        THEN Panic([c EXCEPT !.sp = nsp])
        ELSE [c EXCEPT !.sp = nsp, !.pc = c.stack[nsp]]

Op1NNN(c, w) == [c EXCEPT !.pc = nnn(w)]

(* A call that pushes the address of the call itself.                      *)
Op2NNNPushesCallSite(c, w) ==
    IF c.sp >= StackSize
    THEN Panic(c)
    ELSE [c EXCEPT !.stack[c.sp] = c.pc - 2, !.sp = U16(c.sp + 1), !.pc = nnn(w)]

Op2NNN(c, w) ==
    IF c.sp >= StackSize
    THEN Panic(c)
    ELSE [c EXCEPT !.stack[c.sp] = c.pc, !.sp = U16(c.sp + 1), !.pc = nnn(w)]

(* A skip that steps over one byte.                                        *)
SkipOne(c) == [c EXCEPT !.pc = U16(c.pc + 1)]

Skip(c) == [c EXCEPT !.pc = U16(c.pc + 2)]

Op3XNN(c, w) == IF c.v[x(w)] = nn(w) THEN Skip(c) ELSE c
Op4XNN(c, w) == IF c.v[x(w)] # nn(w) THEN Skip(c) ELSE c
Op5XY0(c, w) == IF c.v[x(w)] = c.v[y(w)] THEN Skip(c) ELSE c
Op9XY0(c, w) == IF c.v[x(w)] # c.v[y(w)] THEN Skip(c) ELSE c

Op6XNN(c, w) == [c EXCEPT !.v[x(w)] = nn(w)]
Op7XNN(c, w) == [c EXCEPT !.v[x(w)] = U8(c.v[x(w)] + nn(w))]

(* A set that copies the other way.                                        *)
Op8XY0Swapped(c, w) == [c EXCEPT !.v[y(w)] = c.v[x(w)]]

Op8XY0(c, w) == [c EXCEPT !.v[x(w)] = c.v[y(w)]]
Op8XY1(c, w) == [c EXCEPT !.v[x(w)] = BitOr(c.v[x(w)], c.v[y(w)])]
Op8XY2(c, w) == [c EXCEPT !.v[x(w)] = BitAnd(c.v[x(w)], c.v[y(w)])]
Op8XY3(c, w) == [c EXCEPT !.v[x(w)] = BitXor(c.v[x(w)], c.v[y(w)])]

(* An add whose carry test is off by one.                                  *)
Op8XY4CarryAt255(c, w) ==
    LET result == U16(c.v[x(w)] + c.v[y(w)])
        c1 == [c EXCEPT !.v[15] = IF result >= 255 THEN 1 ELSE 0]
    IN  [c1 EXCEPT !.v[x(w)] = result % 256]

(* result is computed first; VF is written, then Vx is read no more and    *)
(* written from result.                                                    *)
Op8XY4(c, w) ==
    LET result == U16(c.v[x(w)] + c.v[y(w)])
        c1 == [c EXCEPT !.v[15] = IF result > 255 THEN 1 ELSE 0]
    IN  [c1 EXCEPT !.v[x(w)] = result % 256]

(* A subtract that reports no borrow when the operands are equal.          *)
Op8XY5NotLess(c, w) ==
    LET result == U16(c.v[x(w)] + 65536 - c.v[y(w)])
        c1 == [c EXCEPT !.v[15] = IF c.v[x(w)] >= c.v[y(w)] THEN 1 ELSE 0]
    IN  [c1 EXCEPT !.v[x(w)] = result % 256]

Op8XY5(c, w) ==
    LET result == U16(c.v[x(w)] + 65536 - c.v[y(w)])
        c1 == [c EXCEPT !.v[15] = IF c.v[x(w)] > c.v[y(w)] THEN 1 ELSE 0]
    IN  [c1 EXCEPT !.v[x(w)] = result % 256]

Op8XY7(c, w) ==
    LET result == U16(c.v[y(w)] + 65536 - c.v[x(w)])
        c1 == [c EXCEPT !.v[15] = IF c.v[y(w)] > c.v[x(w)] THEN 1 ELSE 0]
    IN  [c1 EXCEPT !.v[x(w)] = result % 256]

(* A shift of Vx in place, without the copy of Vy.                         *)
Op8XY6InPlace(c, w) ==
    LET c2 == [c EXCEPT !.v[15] = c.v[x(w)] % 2]
    IN  [c2 EXCEPT !.v[x(w)] = c2.v[x(w)] \div 2]

(* Three assignments in order, each reading the registers as they stand.   *)
Op8XY6(c, w) ==
    LET c1 == [c EXCEPT !.v[x(w)] = c.v[y(w)]]
        c2 == [c1 EXCEPT !.v[15] = c1.v[x(w)] % 2]
    IN  [c2 EXCEPT !.v[x(w)] = c2.v[x(w)] \div 2]

Op8XYE(c, w) ==
    LET c1 == [c EXCEPT !.v[x(w)] = c.v[y(w)]]
        c2 == [c1 EXCEPT !.v[15] = c1.v[x(w)] \div 128]
    IN  [c2 EXCEPT !.v[x(w)] = U8(c2.v[x(w)] * 2)]

OpANNN(c, w) == [c EXCEPT !.i = nnn(w)]
OpBNNN(c, w) == [c EXCEPT !.pc = c.v[0] + nnn(w)]
OpCXNN(c, w, in) == [c EXCEPT !.v[x(w)] = BitAnd(in.rnd, nn(w))]

(* sprite := c.memory[c.i : c.i+uint16(n)] panics unless                   *)
(* c.i <= c.i+n (in uint16) <= 4096.                                       *)
OpDXYN(c, w, in) ==
    LET px == c.v[x(w)] % 64
        py == c.v[y(w)] % 32
        hi == U16(c.i + n(w))
        sprite == [k \in 1..(hi - c.i) |-> MemAt(c.memory, c.i + k - 1)]
    IN  IF c.i > hi \/ hi > MemSize
        THEN Panic(c)
        ELSE [DrawSprite(c, px, py, sprite, in)
                 EXCEPT !.v[15] = DrawSpriteFlag(c, px, py, sprite)]

(* keys.IsKeyDown(i) indexes a [16]bool with a uint8.                      *)
OpEX9E(c, w, in) ==
    IF c.v[x(w)] >= 16 THEN Panic(c)
    ELSE IF c.v[x(w)] \in in.current THEN Skip(c) ELSE c

OpEXA1(c, w, in) ==
    IF c.v[x(w)] >= 16 THEN Panic(c)
    ELSE IF c.v[x(w)] \notin in.current THEN Skip(c) ELSE c

OpFX07(c, w) == [c EXCEPT !.v[x(w)] = c.delayTimer]
OpFX15(c, w) == [c EXCEPT !.delayTimer = c.v[x(w)]]
OpFX18(c, w) == [c EXCEPT !.soundTimer = c.v[x(w)]]
OpFX1E(c, w) == [c EXCEPT !.i = U16(c.i + c.v[x(w)])]

WasKeyReleased(in, k) == k \notin in.current /\ k \in in.previous

(* A wait that takes the highest released key.                             *)
OpFX0AHighest(c, w, in) ==
    LET rel == { k \in 0..15 : WasKeyReleased(in, k) }
    IN  IF rel # {}
        THEN [c EXCEPT !.v[x(w)] = CHOOSE k \in rel : \A k2 \in rel : k >= k2]
        ELSE [c EXCEPT !.pc = U16(c.pc + 65534)]

(* The loop stops at the first index that reports a release.               *)
OpFX0A(c, w, in) ==
    LET rel == { k \in 0..15 : WasKeyReleased(in, k) }
    IN  IF rel # {}
        THEN [c EXCEPT !.v[x(w)] = CHOOSE k \in rel : \A k2 \in rel : k <= k2]
        ELSE [c EXCEPT !.pc = U16(c.pc + 65534)]

OpFX29(c, w) == [c EXCEPT !.i = U16(c.v[x(w)] * 5)]

(* An indexed store into c.memory panics when the index is 4096 or more;   *)
(* the stores before it have been made.                                    *)
Store(c, a, b) ==
    IF c.panic THEN c
    ELSE IF a >= MemSize THEN Panic(c)
    ELSE [c EXCEPT !.memory = MemWrite(@, a, b)]

OpFX33(c, w) ==
    LET vx == c.v[x(w)]
        c1 == Store(c, c.i, vx \div 100)
        c2 == Store(c1, U16(c.i + 1), (vx \div 10) % 10)
    IN  Store(c2, U16(c.i + 2), (vx % 100) \div 10)

RECURSIVE StoreLoop(_, _, _)
StoreLoop(c, w, k) ==
    IF k >= x(w) + 1 \/ c.panic THEN c
    ELSE StoreLoop(Store(c, U16(c.i + k), c.v[k]), w, k + 1)

OpFX55(c, w) == StoreLoop(c, w, 0)

RECURSIVE LoadLoop(_, _, _)
LoadLoop(c, w, k) ==
    IF k >= x(w) + 1 \/ c.panic THEN c
    ELSE IF U16(c.i + k) >= MemSize THEN Panic(c)
    ELSE LoadLoop([c EXCEPT !.v[k] = MemAt(c.memory, U16(c.i + k))], w, k + 1)

OpFX65(c, w) == LoadLoop(c, w, 0)

Done(c) == [c |-> c, err |-> Nil]

(* An error that names the address of the word instead of the counter.     *)
UnknownAtAddress(c, w) == [c |-> c, err |-> unknownInstructionError(c.pc - 2, w)]

Unknown(c, w) == [c |-> c, err |-> unknownInstructionError(c.pc, w)]

execute(c, w, in) ==
    LET op == opcode(w) \div 4096 IN
    CASE op = 0 ->
            (CASE nn(w) = 224 -> Done(Clear(c, in))
               [] nn(w) = 238 -> Done(Op00EE(c))
               [] OTHER -> Unknown(c, w))
      [] op = 1 -> Done(Op1NNN(c, w))
      [] op = 2 -> Done(Op2NNN(c, w))
      [] op = 3 -> Done(Op3XNN(c, w))
      [] op = 4 -> Done(Op4XNN(c, w))
      [] op = 5 -> IF n(w) = 0 THEN Done(Op5XY0(c, w)) ELSE Unknown(c, w)
      [] op = 6 -> Done(Op6XNN(c, w))
      [] op = 7 -> Done(Op7XNN(c, w))
      [] op = 8 ->
            (CASE n(w) = 0 -> Done(Op8XY0(c, w))
               [] n(w) = 1 -> Done(Op8XY1(c, w))
               [] n(w) = 2 -> Done(Op8XY2(c, w))
               [] n(w) = 3 -> Done(Op8XY3(c, w))
               [] n(w) = 4 -> Done(Op8XY4(c, w))
               [] n(w) = 5 -> Done(Op8XY5(c, w))
               [] n(w) = 6 -> Done(Op8XY6(c, w))
               [] n(w) = 7 -> Done(Op8XY7(c, w))
               [] n(w) = 14 -> Done(Op8XYE(c, w))
               [] OTHER -> Unknown(c, w))
      [] op = 9 -> IF n(w) = 0 THEN Done(Op9XY0(c, w)) ELSE Unknown(c, w)
      [] op = 10 -> Done(OpANNN(c, w))
      [] op = 11 -> Done(OpBNNN(c, w))
      [] op = 12 -> Done(OpCXNN(c, w, in))
      [] op = 13 -> Done(OpDXYN(c, w, in))
      [] op = 14 ->
            (CASE nn(w) = 158 -> Done(OpEX9E(c, w, in))
               [] nn(w) = 161 -> Done(OpEXA1(c, w, in))
               [] OTHER -> Unknown(c, w))
      [] op = 15 ->
            (CASE nn(w) = 7 -> Done(OpFX07(c, w))
               [] nn(w) = 21 -> Done(OpFX15(c, w))
               [] nn(w) = 24 -> Done(OpFX18(c, w))
               [] nn(w) = 30 -> Done(OpFX1E(c, w))
               [] nn(w) = 10 -> Done(OpFX0A(c, w, in))
               [] nn(w) = 41 -> Done(OpFX29(c, w))
               [] nn(w) = 51 -> Done(OpFX33(c, w))
               [] nn(w) = 85 -> Done(OpFX55(c, w))
               [] nn(w) = 101 -> Done(OpFX65(c, w))
               [] OTHER -> Unknown(c, w))

-----------------------------------------------------------------------------
(* Chip8.fetch and Chip8.Cycle.                                            *)

(* c.memory[c.pc : c.pc+2] panics unless c.pc <= c.pc+2 (uint16) <= 4096.  *)
fetch(c) ==
    LET hi == U16(c.pc + 2)
    IN  IF c.pc > hi \/ hi > MemSize
        THEN [c |-> Panic(c), word |-> -1]
        ELSE [c |-> [c EXCEPT !.pc = hi],
              word |-> MemAt(c.memory, c.pc) * 256 + MemAt(c.memory, c.pc + 1)]

(* A tick that decrements without looking: 0 wraps to 255.                 *)
TickDelayWrap(c) == [c EXCEPT !.delayTimer = U8(c.delayTimer + 255)]

TickDelay(c) ==
    IF c.delayTimer > 0 THEN [c EXCEPT !.delayTimer = c.delayTimer - 1] ELSE c

(* A level-triggered tick: beeps whenever the timer is 0 after it.         *)
TickSoundLevel(c) ==
    LET c1 == IF c.soundTimer > 0 THEN [c EXCEPT !.soundTimer = c.soundTimer - 1] ELSE c
    IN  IF c1.soundTimer = 0 THEN [c1 EXCEPT !.beeped = @ + 1] ELSE c1

TickSound(c) ==
    IF c.soundTimer > 0
    THEN LET c1 == [c EXCEPT !.soundTimer = c.soundTimer - 1]
         IN  IF c1.soundTimer = 0 THEN [c1 EXCEPT !.beeped = @ + 1] ELSE c1
    ELSE c

Panicked == [kind |-> "panic"]

(* One call of Cycle on machine c with the collaborators' answers in:      *)
(* the machine it leaves, what it returns, and what it did on the way.     *)
CycleCall(c, in) ==
    LET f == fetch(c)
        e == execute(f.c, f.word, in)
        t == TickSound(TickDelay(e.c))
    IN  IF f.c.panic
        THEN [c |-> f.c, ret |-> Panicked, word |-> f.word, exec |-> f.c]
        ELSE IF e.c.panic
        THEN [c |-> e.c, ret |-> Panicked, word |-> f.word, exec |-> e.c]
        ELSE IF e.err # Nil
        THEN [c |-> e.c, ret |-> e.err, word |-> f.word, exec |-> e.c]
        ELSE [c |-> t, ret |-> Nil, word |-> f.word, exec |-> e.c]

-----------------------------------------------------------------------------
(* emulator.go: the keys.  k is [current, previous], an event is           *)
(* [type, key] with key the index keyMap gives for its scancode.           *)

Keys == [current |-> current, previous |-> previous]

startFrame(k) == [k EXCEPT !.previous = k.current]

handleEvent(k, e) ==
    CASE e.type = "KEYUP" -> [k EXCEPT !.current = @ \ {e.key}]
      [] e.type = "KEYDOWN" -> [k EXCEPT !.current = @ \cup {e.key}]
      [] OTHER -> k

(* for event := sdl.PollEvent(); event != nil; ... keys.handleEvent(e)     *)
RECURSIVE PollEvents(_, _)
PollEvents(k, evs) ==
    IF evs = <<>> THEN k
    ELSE PollEvents(handleEvent(k, Head(evs)), Tail(evs))

-----------------------------------------------------------------------------
(* The machine as one value, and the answers of the collaborators.         *)

Machine ==
    [v |-> v, i |-> i, pc |-> pc, stack |-> stack, sp |-> sp,
     memory |-> memory, pixels |-> pixels,
     delayTimer |-> delayTimer, soundTimer |-> soundTimer,
     draws |-> <<>>, drawRets |-> <<>>, beeped |-> 0, panic |-> FALSE]

KeyIdx == {1, 15}
RandBytes == {0, 165, 255}
DrawRets == {Nil, DrawFailed}

KeyEvents == { [type |-> t, key |-> k] : t \in {"KEYUP", "KEYDOWN"}, k \in KeyIdx }

RECURSIVE EventSeqs(_)
EventSeqs(len) ==
    IF len = 0 THEN { <<>> }
    ELSE EventSeqs(len - 1)
         \cup { Append(es, e) : es \in EventSeqs(len - 1), e \in KeyEvents }

NoInput == [rnd |-> 0, events |-> <<>>, drawRet |-> Nil]

(* The collaborators are asked only by some instructions; the answers      *)
(* are enumerated for those and fixed for the others (key events arrive    *)
(* in the frames whose instruction looks at the keys).                     *)
Inputs(c) ==
    LET f == fetch(c)
        op == f.word \div 4096
    IN  CASE f.word < 0 -> {NoInput}
          [] (op = 0 /\ nn(f.word) = 224) \/ op = 13 ->
                { [NoInput EXCEPT !.drawRet = d] : d \in DrawRets }
          [] op = 12 ->
                { [NoInput EXCEPT !.rnd = r] : r \in RandBytes }
          [] op = 14 \/ (op = 15 /\ nn(f.word) = 10) ->
                { [NoInput EXCEPT !.events = es] : es \in EventSeqs(MaxEvents) }
          [] OTHER -> {NoInput}

Observed(call, c0, r) ==
    [call |-> call, at |-> c0.pc, word |-> r.word, sp0 |-> c0.sp,
     draws |-> r.c.draws, drawRets |-> r.c.drawRets, beeped |-> r.c.beeped,
     delayExec |-> r.exec.delayTimer, soundExec |-> r.exec.soundTimer,
     v0 |-> c0.v, i0 |-> c0.i, pixels0 |-> c0.pixels, vf |-> r.c.v[15],
     panicked |-> r.c.panic]

NoCall ==
    [call |-> "none", at |-> 0, word |-> -1, sp0 |-> 0,
     draws |-> <<>>, drawRets |-> <<>>, beeped |-> 0,
     delayExec |-> 0, soundExec |-> 0,
     v0 |-> [r \in Reg |-> 0], i0 |-> 0, pixels0 |-> {}, vf |-> 0,
     panicked |-> FALSE]

(* emulator.go: the beeper.  playing is the audio device's state (not      *)
(* paused); timers holds, for each goroutine Beep has started, the clock   *)
(* ticks left until its pending time.After fires.                          *)

newBeeper == [playing |-> FALSE, timers |-> <<>>]

(* sdl.PauseAudio(false); go func() { for { <-time.After(...); ... } }()   *)
Beep(b) == [b EXCEPT !.playing = TRUE, !.timers = Append(@, BeepTicks)]

(* One turn of a goroutine's loop: its timer has fired, it pauses the      *)
(* audio and waits on a new time.After.                                    *)
Silence(b, g) == [b EXCEPT !.playing = FALSE, !.timers[g] = BeepTicks]

(* The clock advances by one tick.                                         *)
Elapse(b) == [b EXCEPT !.timers = [g \in DOMAIN @ |-> @[g] - 1]]

(* One word through Chip8: New, LoadROM of the two bytes of w, one Cycle.  *)
(* What Cycle returned, whether that is execute's unknown-instruction      *)
(* error, and the fields the Instruction accessors give.                   *)
DispatchCall(c, w, in) ==
    LET r == CycleCall([c EXCEPT !.memory =
                           CopyInto(c.memory, RomBase, << w \div 256, w % 256 >>)], in)
    IN  [word |-> w, ret |-> r.ret,
         unknown |-> (r.ret = unknownInstructionError(r.c.pc, w)),
         x |-> x(w), y |-> y(w), n |-> n(w), nn |-> nn(w), nnn |-> nnn(w)]

NoDispatch ==
    [word |-> -1, ret |-> Nil, unknown |-> FALSE,
     x |-> 0, y |-> 0, n |-> 0, nn |-> 0, nnn |-> 0]

(* One call of the decoder on opcode o: the tag and the five fields.       *)
DecodeCall(o) ==
    [word |-> o, tag |-> Instruction(o),
     X |-> X(o), Y |-> Y(o), N |-> N(o), NN |-> NN(o), NNN |-> NNN(o)]

NoDecode == [word |-> -1, tag |-> "none", X |-> 0, Y |-> 0, N |-> 0, NN |-> 0, NNN |-> 0]

-----------------------------------------------------------------------------
(* New: the machine after construction.                                    *)

Init ==
    /\ v = [r \in Reg |-> 0]
    /\ i = 0
    /\ pc = RomBase
    /\ stack = [k \in 0..(StackSize - 1) |-> 0]
    /\ sp = 0
    /\ memory = CopyInto(ZeroMemory, 0, fontSet)
    /\ pixels = {}
    /\ delayTimer = 0
    /\ soundTimer = 0
    /\ status = "new"
    /\ ret = Nil
    /\ loaded = <<>>
    /\ cycles = 0
    /\ beeps = 0
    /\ last = NoCall
    /\ prev = NoCall
    /\ current = {}
    /\ previous = {}
    /\ decoded = NoDecode
    /\ dispatched = NoDispatch
    /\ beeper = newBeeper
    /\ sinceBeep = BeepTicks

-----------------------------------------------------------------------------
(* Programs.  A ROM is a sequence of bytes; the programs explored are      *)
(* written as sequences of 16-bit words, stored big-endian.                *)

RomOf(words) ==
    [k \in 1..(2 * Len(words)) |->
        IF k % 2 = 1 THEN words[(k + 1) \div 2] \div 256
                     ELSE words[k \div 2] % 256]

Pad(bytes, len) ==
    [k \in 1..len |-> IF k <= Len(bytes) THEN bytes[k] ELSE 0]

Wxy(op, rx, ry, lo) == op * 4096 + rx * 256 + ry * 16 + lo
Wxn(op, rx, lo) == op * 4096 + rx * 256 + lo
Wa(op, addr) == op * 4096 + addr

ArithRegs == {0, 1, 2, 14, 15}
ArithVals == {0, 1, 3, 5, 127, 128, 254, 255}
ArithOps == {0, 1, 2, 3, 4, 5, 6, 7, 14}

(* Vx := a; Vy := b; Vx := Vx op Vy                                        *)
ArithPrograms ==
    { << Wxn(6, rx, a), Wxn(6, ry, b), Wxy(8, rx, ry, k) >> :
        <<rx, ry, a, b, k>> \in
            ArithRegs \X ArithRegs \X ArithVals \X ArithVals \X ArithOps }

BcdRegs == {0, 3}
BcdAddrs == {768, 4093, 4094, 4095}

(* Vx := a; I := addr; BCD of Vx to memory[I..I+2]                         *)
BcdPrograms ==
    { << Wxn(6, rx, a), Wa(10, addr), Wxn(15, rx, 51) >> :
        <<rx, a, addr>> \in BcdRegs \X Byte \X BcdAddrs }

(* d calls, each to the next word, then a return.                          *)
ChainDepths == {1, 2, 3, 15, 16, 17}
ChainProgram(d) ==
    [k \in 1..(d + 1) |-> IF k <= d THEN Wa(2, RomBase + 2 * k) ELSE 238]

(* jump to the call site a; at a, call t; at t, return.                    *)
CallSites == {514, 516, 522}
CallTargets == {518, 520, 526, 530}
CallProgram(a, t) ==
    [k \in 1..((t - RomBase) \div 2 + 1) |->
        CASE RomBase + 2 * (k - 1) = a -> Wa(2, t)
          [] RomBase + 2 * (k - 1) = t -> 238
          [] k = 1 -> Wa(1, a)
          [] OTHER -> Wxn(6, 0, 0)]

CallPrograms ==
    { ChainProgram(d) : d \in ChainDepths }
    \cup { CallProgram(a, t) : <<a, t>> \in { at \in CallSites \X CallTargets : at[1] # at[2] } }
    \cup { << Wa(2, 516), Wa(1, 512), 238 >>,        \* call, return, jump back: a loop
           << 238 >>,                                \* return on an empty stack
           << Wa(2, 512) >> }                        \* a call to itself

TimerVals == {0, 1, 2, 5, 6, 255}

(* V0 := a (V1 := b); sound and delay := V0 (V1); read the delay; then     *)
(* spin, or reload, or run a few more instructions.                        *)
TimerPrograms ==
    { << Wxn(6, 0, 6), Wxn(15, 0, 24), Wa(1, 516) >>,
      << Wxn(6, 0, 2), Wxn(15, 0, 24), Wa(1, 512) >> }
    \cup { << Wxn(6, 0, a), Wxn(6, 1, b), Wxn(15, 0, 21), Wxn(15, 1, 24),
              Wxn(15, 2, 7), Wxn(6, 3, 0), Wxn(6, 3, 1), Wxn(6, 3, 2),
              Wxn(6, 3, 3), Wxn(6, 3, 4), Wxn(15, 2, 7) >> :
                <<a, b>> \in TimerVals \X TimerVals }

(* One word alone, for every family and every low byte.                    *)
ProbeRegs == {0, 10}
ProbeWords ==
    { Wxn(op, rx, lo) : <<op, rx, lo>> \in (0..15) \X ProbeRegs \X Byte }
ProbePrograms == { << w >> : w \in ProbeWords }

(* A machine with registers, I, timers, stack and pixels all set, then a   *)
(* word that is no instruction.                                            *)
BadWords ==
    { 0, 1, 225, 239, 3822, 20481, 20495, 32776, 32783, 33533, 36865, 36879,
      57344, 57503, 57506, 61440, 61445, 61696, 65535 }
BadPrograms ==
    { << Wxn(6, 0, 9), Wxn(6, 5, 77), Wxn(15, 0, 21), Wxn(15, 5, 24), Wa(2, 524),
         0, Wa(10, 5), Wxy(13, 0, 0, 5), w >> : w \in BadWords }

(* V0 := a; V1 := b; I := font glyph g; draw k rows at (V0, V1), twice;    *)
(* clear; draw again; draw the other glyph over it, twice.                 *)
DrawXs == {0, 60, 63, 70}
DrawYs == {0, 30, 31, 33}
DrawRows == {0, 1, 2, 5}
DrawGlyphs == {0, 5}
DrawPrograms ==
    { << Wxn(6, 0, a), Wxn(6, 1, b), Wa(10, g), Wxy(13, 0, 1, k),
         Wxy(13, 0, 1, k), 224, Wxy(13, 0, 1, k), Wa(10, 5 - g),
         Wxy(13, 0, 1, k), Wxy(13, 0, 1, k) >> :
        <<a, b, k, g>> \in DrawXs \X DrawYs \X DrawRows \X DrawGlyphs }

(* Register block store and load, index arithmetic, keys and random.       *)
MiscPrograms ==
    { << Wxn(6, 0, 17), Wxn(6, 1, 34), Wxn(6, 2, 51), Wa(10, addr),
         Wxn(15, 2, 85), Wxn(6, 1, 0), Wxn(15, 1, 101), Wxn(15, 2, 30),
         Wxn(15, 1, 41) >> : addr \in {768, 4094} }
    \cup { << Wxn(6, 5, 5), Wxn(15, 5, 21), Wxn(15, 3, 10), Wxy(8, 5, 3, 0) >> }
    \cup { << Wa(10, MemSize - 1), Wxy(13, 0, 0, 5) >> }
    \cup { << Wxn(6, 0, k), Wxn(14, 0, 158), Wxn(14, 0, 161),
              Wxn(12, 4, 60), Wxn(3, 4, 0), Wxn(4, 4, 0), Wxy(5, 3, 4, 0),
              Wxy(9, 3, 4, 0), Wxn(7, 0, 250), Wa(11, 528) >> : k \in {0, 1, 16} }

Programs ==
    ArithPrograms \cup BcdPrograms \cup CallPrograms \cup TimerPrograms
    \cup ProbePrograms \cup BadPrograms \cup DrawPrograms \cup MiscPrograms

MaxRomLen == MemSize - RomBase

(* Payloads at and beyond the largest that fits.                           *)
LongLens == {MaxRomLen - 1, MaxRomLen, MaxRomLen + 1, MemSize}
LongROMs ==
    { Pad(RomOf(<< Wxn(6, 1, 17) >>), len) : len \in LongLens }
    \cup { [k \in 1..len |-> 255] : len \in LongLens }

ROMs == { RomOf(p) : p \in Programs } \cup LongROMs \cup { <<>> }

-----------------------------------------------------------------------------
(* Chip8.LoadROM: read the file, copy it to memory[0x200:].                *)

LoadROM ==
    /\ status = "new"
    /\ \E rom \in ROMs, readOk \in BOOLEAN :
        /\ memory' = IF readOk THEN CopyInto(memory, RomBase, rom) ELSE memory
        /\ ret' = IF readOk THEN Nil ELSE ReadFailed
        /\ status' = IF readOk THEN "running" ELSE "error"
        /\ loaded' = IF readOk THEN rom ELSE <<>>
        /\ prev' = last
        /\ last' = [NoCall EXCEPT !.call = "LoadROM", !.at = pc, !.sp0 = sp]
    /\ UNCHANGED <<v, i, pc, stack, sp, pixels, delayTimer, soundTimer, cycles, beeps,
                   current, previous, decoded, dispatched, beeper, sinceBeep>>

(* One turn of Run's inner loop: keys.startFrame, the pending events,      *)
(* then Chip8.Cycle; Run goes on until Cycle returns an error.             *)
Cycle ==
    /\ status = "running"
    /\ cycles < MaxCycles
    /\ \E in \in Inputs(Machine) :
       \E k \in {PollEvents(startFrame(Keys), in.events)} :
       \E r \in {CycleCall(Machine, [rnd |-> in.rnd, drawRet |-> in.drawRet,
                                     current |-> k.current,
                                     previous |-> k.previous])} :
        /\ current' = k.current
        /\ previous' = k.previous
        /\ v' = r.c.v
        /\ i' = r.c.i
        /\ pc' = r.c.pc
        /\ stack' = r.c.stack
        /\ sp' = r.c.sp
        /\ memory' = r.c.memory
        /\ pixels' = r.c.pixels
        /\ delayTimer' = r.c.delayTimer
        /\ soundTimer' = r.c.soundTimer
        /\ ret' = r.ret
        /\ status' = CASE r.ret = Panicked -> "panic"
                       [] r.ret = Nil -> "running"
                       [] OTHER -> "error"
        /\ cycles' = cycles + 1
        /\ beeps' = beeps + r.c.beeped
        /\ prev' = last
        /\ last' = Observed("Cycle", Machine, r)
        /\ beeper' = IF r.c.beeped > 0 THEN Beep(beeper) ELSE beeper
        /\ sinceBeep' = IF r.c.beeped > 0 THEN 0 ELSE sinceBeep
    /\ UNCHANGED <<loaded, decoded, dispatched>>

Next == LoadROM \/ Cycle

Spec == Init /\ [][Next]_vars

(* The decoder of package opcodes stands alone (Chip8 does not call it):   *)
(* any 16-bit opcode can be handed to it.  It reads and writes no state,   *)
(* so a call does not depend on the calls before it and one call per       *)
(* behaviour covers them all.                                              *)
Decode ==
    /\ decoded = NoDecode
    /\ \E o \in 0..65535 : decoded' = DecodeCall(o)
    /\ UNCHANGED <<v, i, pc, stack, sp, memory, pixels, delayTimer, soundTimer,
                   status, ret, loaded, cycles, beeps, last, prev,
                   current, previous, dispatched, beeper, sinceBeep>>

NextDecode == Decode

SpecDecode == Init /\ [][NextDecode]_vars

(* Chip8's own dispatch on any 16-bit word: the word is the whole ROM of   *)
(* a new machine and one cycle runs it, with quiet collaborators.          *)
Dispatch ==
    /\ dispatched = NoDispatch
    /\ status = "new"
    /\ \E w \in 0..65535 :
         dispatched' = DispatchCall(Machine, w,
                                    [rnd |-> 0, drawRet |-> Nil,
                                     current |-> {}, previous |-> {}])
    /\ UNCHANGED <<v, i, pc, stack, sp, memory, pixels, delayTimer, soundTimer,
                   status, ret, loaded, cycles, beeps, last, prev,
                   current, previous, decoded, beeper, sinceBeep>>

NextDispatch == Dispatch

SpecDispatch == Init /\ [][NextDispatch]_vars

(* The beeper in time.  Chip8.Cycle calls Beep() when the sound timer      *)
(* reaches 0; here any cycle may be such a cycle.  A timer that is due     *)
(* fires before the clock goes on.                                         *)
CallBeep ==
    /\ Len(beeper.timers) < MaxBeeps
    /\ beeper' = Beep(beeper)
    /\ sinceBeep' = 0
    /\ beeps' = beeps + 1
    /\ UNCHANGED <<v, i, pc, stack, sp, memory, pixels, delayTimer, soundTimer,
                   status, ret, loaded, cycles, last, prev,
                   current, previous, decoded, dispatched>>

TimerFires ==
    /\ \E g \in DOMAIN beeper.timers :
         /\ beeper.timers[g] = 0
         /\ beeper' = Silence(beeper, g)
    /\ UNCHANGED <<v, i, pc, stack, sp, memory, pixels, delayTimer, soundTimer,
                   status, ret, loaded, cycles, beeps, last, prev,
                   current, previous, decoded, dispatched, sinceBeep>>

Tick ==
    /\ \A g \in DOMAIN beeper.timers : beeper.timers[g] > 0
    /\ beeper' = Elapse(beeper)
    /\ sinceBeep' = IF sinceBeep < BeepTicks THEN sinceBeep + 1 ELSE sinceBeep
    /\ UNCHANGED <<v, i, pc, stack, sp, memory, pixels, delayTimer, soundTimer,
                   status, ret, loaded, cycles, beeps, last, prev,
                   current, previous, decoded, dispatched>>

NextBeep == CallBeep \/ TimerFires \/ Tick

SpecBeep == Init /\ [][NextBeep]_vars

-----------------------------------------------------------------------------
(* Properties.                                                             *)

(* The word a cycle starting in this state fetches, and whether a step is  *)
(* a call of Cycle that fetched it.                                        *)
WordAtPc == MemAt(memory, pc) * 256 + MemAt(memory, pc + 1)
CycleStep == cycles' = cycles + 1 /\ pc + 2 <= MemSize
Returned == last.call = "Cycle" /\ ret = Nil

(* V0 := 6; sound := V0 (5 after that cycle's tick); spin.                 *)
BeepProgram == RomOf(<< Wxn(6, 0, 6), Wxn(15, 0, 24), Wa(1, 516) >>)

(* C1: Beep() is invoked in a cycle exactly when the sound timer stands    *)
(* at 1 after the execute step and the tick takes it to 0, at most once    *)
(* per cycle and never when it stands at 0; a cycle that returns an error  *)
(* or panics does not beep.  With the timer at 5 and a program that        *)
(* leaves it alone, the fifth cycle beeps and the 520 after it do not.     *)
C1_BeepOnEdge ==
    /\ last.beeped \in {0, 1}
    /\ Returned =>
          /\ last.beeped = 1 <=> (last.soundExec = 1 /\ soundTimer = 0)
          /\ last.soundExec = 0 => last.beeped = 0
    /\ (last.call = "Cycle" /\ ret # Nil) => last.beeped = 0
    /\ loaded = BeepProgram =>
          /\ cycles < 7 => beeps = 0
          /\ cycles >= 7 => beeps = 1
          /\ cycles = 2 => soundTimer = 5
          /\ cycles = 7 => (last.beeped = 1 /\ last.soundExec = 1)

C1_Witness ==
    /\ loaded = BeepProgram
    /\ cycles = 2 + 525
    /\ beeps = 1
    /\ soundTimer = 0
    /\ last.beeped = 0

C3_BcdDigits ==
    [][ (CycleStep /\ Instruction(WordAtPc) = "FX33" /\ i + 2 < MemSize) =>
          /\ memory' = MemWrite(MemWrite(MemWrite(memory,
                            i, v[X(WordAtPc)] \div 100),
                            i + 1, (v[X(WordAtPc)] \div 10) % 10),
                            i + 2, v[X(WordAtPc)] % 10)
          /\ v' = v ]_vars

(* C4: a cycle whose word is no instruction returns the decode error made  *)
(* of the program counter (as the fetch left it) and the word, and leaves  *)
(* everything but the PC as it was: no Draw, no Beep, no timer tick.       *)
C4_UnknownOpcode ==
    [][ (CycleStep /\ Instruction(WordAtPc) = "Unknown") =>
          /\ ret' = [kind |-> "unknown opcode", pc |-> pc', word |-> WordAtPc]
          /\ pc' = pc + 2
          /\ status' = "error"
          /\ UNCHANGED <<v, i, sp, stack, memory, pixels, delayTimer, soundTimer, beeps>>
          /\ last'.draws = <<>>
          /\ last'.beeped = 0 ]_vars

C4_Witness ==
    /\ status = "error"
    /\ last.call = "Cycle"
    /\ ret = [kind |-> "unknown opcode", pc |-> 530, word |-> 20481]
    /\ delayTimer > 0 /\ soundTimer > 0 /\ sp > 0 /\ pixels # {} /\ i # 0

(* C5 (as claimed): an error reported by Draw during a cycle is what       *)
(* Cycle returns.                                                          *)
C5_DrawErrorReturned ==
    (last.call = "Cycle" /\ status # "panic") =>
        \A k \in DOMAIN last.drawRets :
            last.drawRets[k] # Nil => ret = last.drawRets[k]

(* C6 (as claimed): LoadROM of a payload longer than 3584 bytes returns    *)
(* an error and changes nothing.                                           *)
C6_LongRomRejected ==
    [][ (status = "new" /\ last'.call = "LoadROM" /\ Len(loaded') > MaxRomLen) =>
          /\ ret' # Nil
          /\ UNCHANGED <<v, i, pc, stack, sp, memory, pixels, delayTimer, soundTimer>> ]_vars

(* C7: after New and a LoadROM of at most 3584 bytes, PC = 0x200, SP, I,   *)
(* the registers and the timers are 0, no pixel is lit, memory[0..80) is   *)
(* the font, memory[0x200..0x200+len) is the payload and every other byte  *)
(* is 0 (a byte outside the domain of memory is 0, so: every byte in the   *)
(* domain is a font byte or a payload byte).                               *)
C7_StateAfterLoad ==
    (last.call = "LoadROM" /\ ret = Nil /\ Len(loaded) <= MaxRomLen) =>
        /\ pc = 512 /\ sp = 0 /\ i = 0
        /\ \A r \in 0..15 : v[r] = 0
        /\ delayTimer = 0 /\ soundTimer = 0
        /\ pixels = {}
        /\ \A a \in DOMAIN memory :
              \/ a < 80 /\ memory[a] = fontSet[a + 1]
              \/ a >= 512 /\ a < 512 + Len(loaded) /\ memory[a] = loaded[a - 512 + 1]
        /\ \A a \in 0..79 : MemAt(memory, a) = fontSet[a + 1]
        /\ \A k \in DOMAIN loaded : MemAt(memory, 512 + k - 1) = loaded[k]

C7_Witness ==
    /\ last.call = "LoadROM" /\ ret = Nil
    /\ Len(loaded) = 3584
    /\ MemAt(memory, 4095) = 255
    /\ MemAt(memory, 79) = 128

(* C8: a call at address a with SP < 16, followed at once by a return at   *)
(* its target, leaves PC = a + 2 and SP as it was before the call.         *)
C8_CallReturn ==
    (/\ prev.call = "Cycle" /\ Instruction(prev.word) = "2NNN" /\ prev.sp0 < 16
     /\ last.call = "Cycle" /\ Instruction(last.word) = "00EE") =>
        /\ last.at = NNN(prev.word)
        /\ ret = Nil
        /\ pc = prev.at + 2
        /\ sp = prev.sp0

C8_Witness ==
    /\ prev.call = "Cycle" /\ Instruction(prev.word) = "2NNN" /\ prev.sp0 = 15
    /\ last.call = "Cycle" /\ Instruction(last.word) = "00EE"
    /\ pc = prev.at + 2
    /\ sp = 15

(* C9: 8XY4 with x # 0xF leaves Vx = (Vx + Vy) mod 256 and VF = 1 when     *)
(* Vx + Vy exceeds 255, else VF = 0.                                       *)
C9_AddCarry ==
    [][ (CycleStep /\ Instruction(WordAtPc) = "8XY4" /\ X(WordAtPc) # 15) =>
          /\ v'[X(WordAtPc)] = (v[X(WordAtPc)] + v[Y(WordAtPc)]) % 256
          /\ v'[15] = IF v[X(WordAtPc)] + v[Y(WordAtPc)] > 255 THEN 1 ELSE 0 ]_vars

C9_Witness ==
    /\ loaded = RomOf(<< Wxn(6, 0, 255), Wxn(6, 1, 1), Wxy(8, 0, 1, 4) >>)
    /\ cycles = 3
    /\ v[0] = 0 /\ v[1] = 1 /\ v[15] = 1

(* C10: with x # 0xF, 8XY5 leaves Vx = (Vx - Vy) mod 256 and VF = 1        *)
(* exactly when Vx > Vy held before; 8XY7 leaves Vx = (Vy - Vx) mod 256    *)
(* and VF = 1 exactly when Vy > Vx held before.                            *)
C10_SubBorrow ==
    [][ /\ (CycleStep /\ Instruction(WordAtPc) = "8XY5" /\ X(WordAtPc) # 15) =>
              /\ v'[X(WordAtPc)] = (256 + v[X(WordAtPc)] - v[Y(WordAtPc)]) % 256
              /\ v'[15] = IF v[X(WordAtPc)] > v[Y(WordAtPc)] THEN 1 ELSE 0
        /\ (CycleStep /\ Instruction(WordAtPc) = "8XY7" /\ X(WordAtPc) # 15) =>
              /\ v'[X(WordAtPc)] = (256 + v[Y(WordAtPc)] - v[X(WordAtPc)]) % 256
              /\ v'[15] = IF v[Y(WordAtPc)] > v[X(WordAtPc)] THEN 1 ELSE 0 ]_vars

C10_Witness ==
    /\ loaded = RomOf(<< Wxn(6, 0, 5), Wxn(6, 1, 5), Wxy(8, 0, 1, 5) >>)
    /\ cycles = 3
    /\ v[0] = 0 /\ v[1] = 5 /\ v[15] = 0

-----------------------------------------------------------------------------
(* The cycle about to run executes the instruction with this tag.          *)
Executes(tag) == CycleStep /\ Instruction(WordAtPc) = tag

(* C11: after 8XY4, 8XY5, 8XY7, 8XY6, 8XYE and DXYN, VF holds the          *)
(* operation's flag (carry, not-borrow, shifted-out bit, collision) for    *)
(* every x in 0..15, x = 0xF included: the flag is never lost to the       *)
(* result written into the same register.                                  *)
C11_FlagSurvives ==
    [][ /\ Executes("8XY4") =>
              v'[15] = IF v[X(WordAtPc)] + v[Y(WordAtPc)] > 255 THEN 1 ELSE 0
        /\ Executes("8XY5") =>
              v'[15] = IF v[X(WordAtPc)] > v[Y(WordAtPc)] THEN 1 ELSE 0
        /\ Executes("8XY7") =>
              v'[15] = IF v[Y(WordAtPc)] > v[X(WordAtPc)] THEN 1 ELSE 0
        /\ Executes("8XY6") => v'[15] = v[Y(WordAtPc)] % 2
        /\ Executes("8XYE") => v'[15] = v[Y(WordAtPc)] \div 128
        /\ (Executes("DXYN") /\ status' = "running") =>
              v'[15] = IF pixels \ pixels' # {} THEN 1 ELSE 0 ]_vars

(* C12: with x # 0xF, 8XY6 leaves Vx = Vy >> 1 and VF = Vy & 1, and 8XYE   *)
(* leaves Vx = (Vy << 1) mod 256 and VF = Vy >> 7, Vy being the value      *)
(* before the instruction (not the old Vx); Vy itself is unchanged when    *)
(* y # x and y # 0xF.                                                      *)
C12_ShiftFromVy ==
    [][ /\ (Executes("8XY6") /\ X(WordAtPc) # 15) =>
              /\ v'[X(WordAtPc)] = v[Y(WordAtPc)] \div 2
              /\ v'[15] = v[Y(WordAtPc)] % 2
              /\ (Y(WordAtPc) \notin {X(WordAtPc), 15}) =>
                    v'[Y(WordAtPc)] = v[Y(WordAtPc)]
        /\ (Executes("8XYE") /\ X(WordAtPc) # 15) =>
              /\ v'[X(WordAtPc)] = (v[Y(WordAtPc)] * 2) % 256
              /\ v'[15] = v[Y(WordAtPc)] \div 128
              /\ (Y(WordAtPc) \notin {X(WordAtPc), 15}) =>
                    v'[Y(WordAtPc)] = v[Y(WordAtPc)] ]_vars

C12_Witness ==
    /\ loaded = RomOf(<< Wxn(6, 0, 0), Wxn(6, 1, 255), Wxy(8, 0, 1, 6) >>)
    /\ cycles = 3
    /\ v[0] = 127 /\ v[1] = 255 /\ v[15] = 1

(* C17: with x # y, a cycle executing 8XY0 makes Vx equal to Vy, leaves    *)
(* every other register, I, SP, the stack, memory and the framebuffer      *)
(* unchanged, and advances PC by exactly 2.                                *)
C17_SetFrame ==
    [][ (Executes("8XY0") /\ X(WordAtPc) # Y(WordAtPc)) =>
          /\ v'[X(WordAtPc)] = v[Y(WordAtPc)]
          /\ \A r \in Reg \ {X(WordAtPc)} : v'[r] = v[r]
          /\ i' = i
          /\ sp' = sp
          /\ stack' = stack
          /\ memory' = memory
          /\ pixels' = pixels
          /\ pc' = pc + 2 ]_vars

C17_Witness ==
    /\ loaded = RomOf(<< Wxn(6, 0, 3), Wxn(6, 1, 5), Wxy(8, 0, 1, 0) >>)
    /\ cycles = 3
    /\ v[0] = 5 /\ v[1] = 5 /\ v[15] = 0
    /\ pc = RomBase + 6

(* C18: for any program, SP is in [0,16) before every 2NNN push and in     *)
(* [1,16] before every 00EE pop: the stack is never indexed out of range   *)
(* and SP neither wraps below 0 nor grows past 16.                         *)
C18_StackInRange ==
    [][ /\ Executes("2NNN") => sp \in 0..(StackSize - 1)
        /\ Executes("00EE") => sp \in 1..StackSize
        /\ sp' \in 0..StackSize ]_vars

(* A transfer of control whose target is an odd address.                   *)
OddJump ==
    \/ Instruction(WordAtPc) \in {"1NNN", "2NNN"} /\ NNN(WordAtPc) % 2 = 1
    \/ Instruction(WordAtPc) = "BNNN" /\ (v[0] + NNN(WordAtPc)) % 2 = 1

EvenAddresses(pcv, stk) ==
    pcv % 2 = 0 /\ \A k \in DOMAIN stk : stk[k] % 2 = 0

(* C19, as stated: in every reachable state PC is a multiple of 2.         *)
C19_PcEven == pc % 2 = 0

(* C19, amended: PC and every stack entry are multiples of 2 after New,    *)
(* LoadROM leaves them alone, and a cycle that starts with them even       *)
(* leaves them even unless it executes 1NNN or 2NNN with an odd nnn, or    *)
(* BNNN with V0 + nnn odd.                                                 *)
C19_PcEvenUnlessOddJump ==
    /\ EvenAddresses(pc, stack)
    /\ [][ (EvenAddresses(pc, stack) /\ ~(cycles' = cycles + 1 /\ OddJump))
              => EvenAddresses(pc', stack') ]_vars

C19_Witness ==
    /\ prev.call = "Cycle" /\ Instruction(prev.word) = "3XNN"
    /\ last.call = "Cycle" /\ last.at = prev.at + 4
    /\ status = "running"
    /\ EvenAddresses(pc, stack)

(* The sprite of the DXYN about to run: rows, origin, and whether the      *)
(* sprite has a set bit that falls on the cell at (row, col).              *)
SpriteRows == N(WordAtPc)
SpriteX == v[X(WordAtPc)] % DISPLAY_WIDTH
SpriteY == v[Y(WordAtPc)] % DISPLAY_HEIGHT
SpriteBitAt(row, col) ==
    /\ row - SpriteY \in 0..(SpriteRows - 1)
    /\ col - SpriteX \in 0..7
    /\ Bit(MemAt(memory, i + (row - SpriteY)), 7 - (col - SpriteX)) = 1

(* C13: DrawSprite(x, y, sprite) with x < 64, y < 32: for every row r of   *)
(* the sprite with y+r < 32 and every column c in 0..7 with x+c < 64,      *)
(* pixel[y+r][x+c] becomes its old value XOR bit (7-c) of sprite[r]; every *)
(* other pixel is unchanged (rows from 32 and columns from 64 on are       *)
(* dropped, nothing wraps); the flag is 1 iff one of those positions had   *)
(* both the old pixel and the sprite bit set.                              *)
C13_DrawSpriteXor ==
    [][ (Executes("DXYN") /\ status' = "running") =>
          /\ \A row \in 0..(DISPLAY_HEIGHT - 1), col \in 0..(DISPLAY_WIDTH - 1) :
                (<<row, col>> \in pixels')
                    <=> ((<<row, col>> \in pixels) # SpriteBitAt(row, col))
          /\ pixels' \subseteq (0..(DISPLAY_HEIGHT - 1)) \X (0..(DISPLAY_WIDTH - 1))
          /\ v'[15] = IF \E cell \in pixels : SpriteBitAt(cell[1], cell[2])
                       THEN 1 ELSE 0 ]_vars

C13_Witness ==
    /\ last.call = "Cycle" /\ Instruction(last.word) = "DXYN" /\ ~last.panicked
    /\ N(last.word) = 5
    /\ v[0] = 63 /\ v[1] = 30
    /\ last.i0 = 0
    /\ last.pixels0 = {}
    /\ pixels = {<<30, 63>>, <<31, 63>>}
    /\ v[15] = 0

(* The two calls before this state were DXYN with the same arguments.      *)
DrewTwice ==
    /\ prev.call = "Cycle" /\ Instruction(prev.word) = "DXYN" /\ ~prev.panicked
    /\ last.call = "Cycle" /\ Instruction(last.word) = "DXYN" /\ ~last.panicked
    /\ N(last.word) = N(prev.word)
    /\ (last.v0[X(last.word)] % DISPLAY_WIDTH) = (prev.v0[X(prev.word)] % DISPLAY_WIDTH)
    /\ (last.v0[Y(last.word)] % DISPLAY_HEIGHT) = (prev.v0[Y(prev.word)] % DISPLAY_HEIGHT)
    /\ last.i0 = prev.i0

(* The origin of the first call, the cells of its target area that are on  *)
(* the grid, and those of them its sprite has a set bit on.                *)
FirstX == prev.v0[X(prev.word)] % DISPLAY_WIDTH
FirstY == prev.v0[Y(prev.word)] % DISPLAY_HEIGHT

TargetArea ==
    { cell \in (0..(DISPLAY_HEIGHT - 1)) \X (0..(DISPLAY_WIDTH - 1)) :
        /\ cell[1] - FirstY \in 0..(N(prev.word) - 1)
        /\ cell[2] - FirstX \in 0..7 }

TargetBits ==
    { cell \in TargetArea :
        Bit(MemAt(memory, prev.i0 + (cell[1] - FirstY)), 7 - (cell[2] - FirstX)) = 1 }

(* C14: DrawSprite twice in a row with the same arguments restores the     *)
(* framebuffer to its state before the first call; when the target area    *)
(* was clear before and the sprite has a set bit in range, the first call  *)
(* returns flag 0 and the second flag 1.                                   *)
C14_DrawTwiceRestores ==
    DrewTwice =>
        /\ pixels = prev.pixels0
        /\ (TargetArea \cap prev.pixels0 = {} /\ TargetBits # {}) =>
                (prev.vf = 0 /\ last.vf = 1)

C14_Witness ==
    /\ DrewTwice
    /\ prev.pixels0 # {}
    /\ TargetArea \cap prev.pixels0 # {}
    /\ last.pixels0 # prev.pixels0
    /\ pixels = prev.pixels0

(* C20: Drawer.Draw is invoked exactly once in each cycle that executes    *)
(* 00E0 or DXYN, after all pixel updates of the instruction and with the   *)
(* grid equal to the framebuffer, and by no other instruction; the         *)
(* framebuffer changes in no cycle without a Draw, so the last grid        *)
(* delivered equals the current framebuffer.                               *)
C20_DrawOncePerUpdate ==
    [][ (cycles' = cycles + 1) =>
          /\ (Executes("00E0") \/ Executes("DXYN")) => last'.draws = << pixels' >>
          /\ ~(Executes("00E0") \/ Executes("DXYN")) => last'.draws = << >>
          /\ last'.draws = << >> => pixels' = pixels
          /\ Len(last'.draws) <= 1 ]_vars

(* The key indices that report WasKeyReleased to the cycle of this step:   *)
(* up now, down at the start of the frame.                                 *)
ReleasedNow == { k \in 0..15 : k \notin current' /\ k \in previous' }

(* C15: a cycle executing FX0A with no key in 0..15 reporting a release    *)
(* ends with PC at the address of that FX0A (so it is fetched again), every *)
(* register unchanged, Cycle returning to its caller and the timers        *)
(* ticked; with a release reported, Vx is the lowest such index and PC is  *)
(* the FX0A address + 2.                                                   *)
C15_WaitForKey ==
    [][ Executes("FX0A") =>
          /\ ReleasedNow = {} =>
                /\ pc' = pc
                /\ memory' = memory
                /\ v' = v
                /\ ret' = Nil /\ status' = "running"
                /\ delayTimer' = IF delayTimer > 0 THEN delayTimer - 1 ELSE 0
                /\ soundTimer' = IF soundTimer > 0 THEN soundTimer - 1 ELSE 0
          /\ ReleasedNow # {} =>
                /\ v'[X(WordAtPc)] \in ReleasedNow
                /\ \A k \in ReleasedNow : v'[X(WordAtPc)] <= k
                /\ pc' = pc + 2 ]_vars

C15_Witness ==
    /\ prev.call = "Cycle" /\ Instruction(prev.word) = "FX0A"
    /\ last.call = "Cycle" /\ last.word = prev.word /\ last.at = prev.at
    /\ previous = {1, 15} /\ current = {}
    /\ v[X(last.word)] = 1
    /\ pc = last.at + 2

(* Bits lo..hi of a word, as a number.                                     *)
Bits(w, lo, hi) == (w \div Pow2(lo)) % Pow2(hi - lo + 1)

(* The decoding rules: family (top nibble), what else is looked at, the    *)
(* value it must have, the tag.                                            *)
TagRules ==
    { <<0, "low byte", 224, "00E0">>, <<0, "low byte", 238, "00EE">>,
      <<1, "nothing", 0, "1NNN">>, <<2, "nothing", 0, "2NNN">>,
      <<3, "nothing", 0, "3XNN">>, <<4, "nothing", 0, "4XNN">>,
      <<5, "low nibble", 0, "5XY0">>,
      <<6, "nothing", 0, "6XNN">>, <<7, "nothing", 0, "7XNN">>,
      <<8, "low nibble", 0, "8XY0">>, <<8, "low nibble", 1, "8XY1">>,
      <<8, "low nibble", 2, "8XY2">>, <<8, "low nibble", 3, "8XY3">>,
      <<8, "low nibble", 4, "8XY4">>, <<8, "low nibble", 5, "8XY5">>,
      <<8, "low nibble", 6, "8XY6">>, <<8, "low nibble", 7, "8XY7">>,
      <<8, "low nibble", 14, "8XYE">>,
      <<9, "low nibble", 0, "9XY0">>,
      <<10, "nothing", 0, "ANNN">>, <<11, "nothing", 0, "BNNN">>,
      <<12, "nothing", 0, "CXNN">>, <<13, "nothing", 0, "DXYN">>,
      <<14, "low byte", 158, "EX9E">>, <<14, "low byte", 161, "EXA1">>,
      <<15, "low byte", 7, "FX07">>, <<15, "low byte", 10, "FX0A">>,
      <<15, "low byte", 21, "FX15">>, <<15, "low byte", 24, "FX18">>,
      <<15, "low byte", 30, "FX1E">>, <<15, "low byte", 41, "FX29">>,
      <<15, "low byte", 51, "FX33">>, <<15, "low byte", 85, "FX55">>,
      <<15, "low byte", 101, "FX65">> }

RuleMatches(rule, w) ==
    /\ Bits(w, 12, 15) = rule[1]
    /\ \/ rule[2] = "nothing"
       \/ rule[2] = "low byte" /\ Bits(w, 0, 7) = rule[3]
       \/ rule[2] = "low nibble" /\ Bits(w, 0, 3) = rule[3]

TagByRule(w) ==
    IF \E rule \in TagRules : RuleMatches(rule, w)
    THEN (CHOOSE rule \in TagRules : RuleMatches(rule, w))[4]
    ELSE "Unknown"

(* C16: for every 16-bit word Instruction() returns the tag the rules fix  *)
(* (family by the top nibble; families 0, E and F resolved on the low      *)
(* byte, family 8 on the low nibble, families 5 and 9 only with low nibble *)
(* 0; Unknown for every other word), and the accessors return X = bits     *)
(* 8-11, Y = bits 4-7, N = bits 0-3, NN = bits 0-7, NNN = bits 0-11.       *)
C16_DecodeTable ==
    decoded.word # -1 =>
        /\ decoded.tag = TagByRule(decoded.word)
        /\ decoded.X = Bits(decoded.word, 8, 11)
        /\ decoded.Y = Bits(decoded.word, 4, 7)
        /\ decoded.N = Bits(decoded.word, 0, 3)
        /\ decoded.NN = Bits(decoded.word, 0, 7)
        /\ decoded.NNN = Bits(decoded.word, 0, 11)

(* 0x5AB1: family 5 with a low nibble other than 0.                        *)
C16_Witness ==
    /\ decoded.word = 23217
    /\ decoded.tag = "Unknown"
    /\ decoded.X = 10 /\ decoded.Y = 11 /\ decoded.N = 1
    /\ decoded.NN = 177 /\ decoded.NNN = 2737

(* C22: for any program, every memory index the CPU uses is within         *)
(* [0,4096): the fetch at PC and PC+1, the DXYN sprite range [I, I+n), the *)
(* FX33 writes at I, I+1, I+2 and the FX55/FX65 ranges [I, I+x]; no cycle  *)
(* faults on an out-of-range memory access.                                *)
C22_MemoryInRange ==
    [][ (cycles' = cycles + 1) =>
          /\ pc + 1 < MemSize
          /\ Executes("DXYN") => i + N(WordAtPc) <= MemSize
          /\ Executes("FX33") => i + 2 < MemSize
          /\ (Executes("FX55") \/ Executes("FX65")) => i + X(WordAtPc) < MemSize ]_vars

(* C21: Beep() called again while an earlier call's silence timer is       *)
(* pending keeps the tone on for the full fixed duration counted from the  *)
(* most recent Beep() (no timer left from an earlier call pauses the audio *)
(* before then), and at most one silence timer is pending at any time.     *)
C21_BeepRearms ==
    /\ sinceBeep < BeepTicks => beeper.playing
    /\ Len(beeper.timers) <= 1

(* C23: on every 16-bit word the CPU's dispatch returns the                *)
(* unknown-instruction error exactly when the standalone decoder returns   *)
(* Unknown, and the two extract the same x, y, n, nn and nnn.              *)
C23_DispatchAgrees ==
    dispatched.word # -1 =>
        /\ dispatched.unknown <=> (Instruction(dispatched.word) = "Unknown")
        /\ dispatched.x = X(dispatched.word)
        /\ dispatched.y = Y(dispatched.word)
        /\ dispatched.n = N(dispatched.word)
        /\ dispatched.nn = NN(dispatched.word)
        /\ dispatched.nnn = NNN(dispatched.word)

(* 0x9AB1: family 9 with a low nibble other than 0.                        *)
C23_Witness ==
    /\ dispatched.word = 39601
    /\ dispatched.unknown
    /\ dispatched.ret = unknownInstructionError(RomBase + 2, 39601)
    /\ Instruction(dispatched.word) = "Unknown"
    /\ dispatched.x = 10 /\ dispatched.y = 11 /\ dispatched.n = 1
    /\ dispatched.nn = 177 /\ dispatched.nnn = 2737

====
